---------------------------- MODULE Spec2Model ----------------------------
(***************************************************************************)
(* Model of src/helper/layer.js of scratch-paint: the role-tagged layer    *)
(* stack of the paint editor (setupLayers, hideGuideLayers,                *)
(* showGuideLayers, the role accessors, the raster content manager), the   *)
(* recursive guide marking setGuideItem, the crosshair builder and the     *)
(* checkerboard path builder.                                              *)
(*                                                                         *)
(* The scene graph is the one of paper.js: project.layers is the stack     *)
(* (index 0 is the back), project.activeLayer receives every newly created *)
(* item, `new paper.Layer()` appends the layer on top and activates it,    *)
(* item.remove() detaches and clears item.index, and a layer that is       *)
(* removed while active hands activeLayer to its next (else previous)      *)
(* sibling.                                                                *)
(***************************************************************************)
EXTENDS Integers, Sequences, FiniteSets, TLC

VARIABLES
    \* ---- the layer stack (specification Spec) ----
    layers,        \* paper.project.layers, back to front: Seq(layer id)
    activeLayer,   \* paper.project.activeLayer (NoLayer when there is none)
    data,          \* layer.data: the role tag of each layer ("none" untagged)
    children,      \* layer.children: Seq(item id) per layer
    layerLocked,   \* layer.locked
    layerVisible,  \* layer.visible
    items,         \* every item created so far: kind, guide, locked
    nLayers,       \* number of Layer objects constructed so far
    nItems,        \* number of items constructed so far
    setupDone,     \* setupLayers() has been called
    snapshots,     \* the objects returned by hideGuideLayers so far
    lastCall,      \* the last exported call: its name, argument, outcome
    \* ---- setGuideItem (specification SpecGuide) ----
    tParent,       \* parent of each node of the item tree (0 for the root)
    tKind,         \* className of each node
    tLocked,       \* item.locked per node
    tGuide,        \* item.guide per node
    callStack,     \* the recursion: frames [item, i]
    gsteps,        \* statements executed so far
    \* ---- _makeCrosshair (specification SpecCrosshair) ----
    zoom,          \* paper.view.zoom as a fraction <<num, den>>
    crosshair,     \* the group being built
    cpc,           \* position in _makeCrosshair
    \* ---- _makeBackgroundPaper (specification SpecPaper) ----
    width, height, \* the arguments
    x, y,          \* the loop variables
    pathPoints,    \* the points pushed so far
    firstLoopLen,  \* pathPoints.length when the first loop was left
    ppc            \* position in _makeBackgroundPaper

layerVars == <<layers, activeLayer, data, children, layerLocked, layerVisible,
               items, nLayers, nItems, setupDone, snapshots, lastCall>>
guideVars == <<tParent, tKind, tLocked, tGuide, callStack, gsteps>>
crossVars == <<zoom, crosshair, cpc>>
paperVars == <<width, height, x, y, pathPoints, firstLoopLen, ppc>>
vars == <<layerVars, guideVars, crossVars, paperVars>>

(***************************************************************************)
(* Bounds of the model.                                                    *)
(***************************************************************************)
MaxLayers == 6     \* Layer objects ever constructed
MaxItems == 6      \* items ever constructed (setupLayers builds four)

LayerIds == 1..MaxLayers
ItemIds == 1..MaxItems

\* _getLayer returns undefined when no layer carries the tag; a removed
\* layer's index is undefined.
NoLayer == 0
NoItem == 0
Undefined == -1

Roles == {"isBackgroundGuideLayer", "isRasterLayer", "isPaintingLayer",
          "isDragCrosshairLayer", "isGuideLayer"}

(***************************************************************************)
(* The scene graph primitives layer.js calls, on a state record s.         *)
(***************************************************************************)
Cur == [layers |-> layers, activeLayer |-> activeLayer, data |-> data,
        children |-> children, layerLocked |-> layerLocked,
        layerVisible |-> layerVisible, items |-> items,
        nLayers |-> nLayers, nItems |-> nItems]

\* `const v = ...; F(v)`: v is evaluated once, then F of its value
Let(v, F(_)) == CHOOSE r \in {F(u) : u \in {v}} : TRUE

InStack(s, l) == \E i \in 1..Len(s.layers) : s.layers[i] = l

\* layer.index: the position in project.layers, undefined once removed
Index(s, l) ==
    IF InStack(s, l)
    THEN (CHOOSE i \in 1..Len(s.layers) : s.layers[i] = l) - 1
    ELSE Undefined

\* !layer.index, as showGuideLayers tests it: true of undefined and of 0
NotIndex(s, l) == Index(s, l) = Undefined \/ Index(s, l) = 0

Without(seq, e) == SelectSeq(seq, LAMBDA v : v # e)

\* layer.remove()
Remove(s, l) ==
    IF ~InStack(s, l) THEN s
    ELSE LET i == Index(s, l) + 1
             sibling == IF i < Len(s.layers) THEN s.layers[i + 1]
                        ELSE IF i > 1 THEN s.layers[i - 1]
                        ELSE NoLayer
         IN [s EXCEPT !.layers = Without(s.layers, l),
                      !.activeLayer = IF s.activeLayer = l THEN sibling
                                      ELSE s.activeLayer]

\* project.insertLayer(index, layer): index 0 or undefined (append)
InsertLayer(s, index, l) ==
    Let(Remove(s, l), LAMBDA r :
        [r EXCEPT !.layers = IF index = Undefined THEN Append(r.layers, l)
                             ELSE <<l>> \o r.layers,
                  !.activeLayer = IF r.activeLayer = NoLayer THEN l
                                  ELSE r.activeLayer])

\* paper.project.addLayer(layer)
AddLayer(s, l) == InsertLayer(s, Undefined, l)

\* layer.sendToBack() and layer.bringToFront(): nothing without an owner
SendToBack(s, l) == IF InStack(s, l) THEN InsertLayer(s, 0, l) ELSE s
BringToFront(s, l) == IF InStack(s, l) THEN InsertLayer(s, Undefined, l) ELSE s

\* AddAtBack without the sendToBack(): the layer stays on top
AddAtBackNotSent(s, l) == AddLayer(s, l)

\* paper.project.addLayer(layer); layer.sendToBack()
AddAtBack(s, l) == Let(AddLayer(s, l), LAMBDA s1 : SendToBack(s1, l))

\* paper.project.addLayer(layer); layer.bringToFront()
AddAtFront(s, l) == Let(AddLayer(s, l), LAMBDA s1 : BringToFront(s1, l))

\* activate() without effect
ActivateNothing(s, l) == s

\* layer.activate()
Activate(s, l) == [s EXCEPT !.activeLayer = l]

\* new paper.Layer(): on top of the stack, and active
NewLayer(s) ==
    Let(AddLayer(s, s.nLayers + 1), LAMBDA s1 :
        [s1 EXCEPT !.nLayers = s.nLayers + 1, !.activeLayer = s.nLayers + 1])

\* new paper.Raster / Group / ...: the item lands in the active layer
\* (the project makes a layer first when it has none)
NewItem(s, kind) ==
    Let(IF s.activeLayer = NoLayer THEN NewLayer(s) ELSE s, LAMBDA s1 :
        [s1 EXCEPT !.nItems = s1.nItems + 1,
                   !.items[s1.nItems + 1] =
                       [kind |-> kind, guide |-> FALSE, locked |-> FALSE],
                   !.children[s1.activeLayer] = Append(@, s1.nItems + 1)])

\* item.parent = layer: taken out of its parent, appended to the layer
SetParent(s, it, l) ==
    [s EXCEPT !.children =
        [k \in LayerIds |-> IF k = l THEN Append(Without(s.children[k], it), it)
                            ELSE Without(s.children[k], it)]]

\* item.guide = true; item.locked = true
SetGuideLocked(s, it) ==
    [s EXCEPT !.items[it].guide = TRUE, !.items[it].locked = TRUE]

\* the first layer in stack order carrying the tag
_getLayer(s, layerString) ==
    IF \E i \in 1..Len(s.layers) : s.data[s.layers[i]] = layerString
    THEN s.layers[CHOOSE i \in 1..Len(s.layers) :
                    /\ s.data[s.layers[i]] = layerString
                    /\ \A j \in 1..(i - 1) : s.data[s.layers[j]] # layerString]
    ELSE NoLayer

_getPaintingLayer(s) == _getLayer(s, "isPaintingLayer")

(***************************************************************************)
(* layer.js.  Every operation maps a state record to an outcome record:    *)
(* the state it leaves (s), whether it threw (a TypeError on a method or   *)
(* property of undefined; s is then the state at the throw), and what it   *)
(* returned.                                                               *)
(***************************************************************************)
\* clearRaster without `raster.parent = layer`: the raster stays in the
\* active layer
clearRasterNoParent(s) ==
    Let(_getLayer(s, "isRasterLayer"), LAMBDA layer :
        IF layer = NoLayer
        THEN [s |-> s, threw |-> TRUE]
        ELSE Let(NewItem([s EXCEPT !.children[layer] = <<>>], "Raster"),
                 LAMBDA s2 :
                 [s |-> SetGuideLocked(s2, s2.nItems), threw |-> FALSE]))

\* clearRaster without `layer.removeChildren()`
clearRasterKeepsChildren(s) ==
    Let(_getLayer(s, "isRasterLayer"), LAMBDA layer :
        IF layer = NoLayer
        THEN [s |-> s, threw |-> TRUE]
        ELSE Let(NewItem(s, "Raster"), LAMBDA s2 :
             Let(SetParent(s2, s2.nItems, layer), LAMBDA s3 :
                 [s |-> SetGuideLocked(s3, s3.nItems), threw |-> FALSE])))

clearRaster(s) ==
    Let(_getLayer(s, "isRasterLayer"), LAMBDA layer :
        IF layer = NoLayer
        THEN [s |-> s, threw |-> TRUE]           \* layer.removeChildren()
        ELSE Let(NewItem([s EXCEPT !.children[layer] = <<>>], "Raster"),
                 LAMBDA s2 :
             Let(SetParent(s2, s2.nItems, layer), LAMBDA s3 :
                 [s |-> SetGuideLocked(s3, s3.nItems), threw |-> FALSE])))

\* layer.children[0], undefined of a layer without children
FirstChild(s, layer) ==
    IF Len(s.children[layer]) = 0 THEN NoItem ELSE s.children[layer][1]

getRaster(s) ==
    Let(_getLayer(s, "isRasterLayer"), LAMBDA layer :
        IF layer = NoLayer
        THEN [s |-> s, threw |-> TRUE, item |-> NoItem]   \* layer.children
        ELSE IF Len(s.children[layer]) = 0
        THEN Let(clearRaster(s), LAMBDA c :
                 [s |-> c.s, threw |-> c.threw,
                  item |-> FirstChild(c.s, _getLayer(c.s, "isRasterLayer"))])
        ELSE [s |-> s, threw |-> FALSE,
              item |-> FirstChild(s, _getLayer(s, "isRasterLayer"))])

getDragCrosshairLayer(s) == _getLayer(s, "isDragCrosshairLayer")

getBackgroundGuideLayer(s) == _getLayer(s, "isBackgroundGuideLayer")

_makeGuideLayer(s) ==
    Let(NewLayer(s), LAMBDA s1 :
        [s1 EXCEPT !.data[s1.nLayers] = "isGuideLayer"])

\* ActivatePainting without the activate(): the new layer stays active
ActivatePaintingSkipped(s1) ==
    [s |-> s1, threw |-> _getPaintingLayer(s1) = NoLayer,
     layer |-> IF _getPaintingLayer(s1) = NoLayer THEN NoLayer ELSE s1.nLayers]

\* after _makeGuideLayer(): _getPaintingLayer().activate()
ActivatePainting(s1) ==
    Let(_getPaintingLayer(s1), LAMBDA painting :
        IF painting = NoLayer
        THEN [s |-> s1, threw |-> TRUE, layer |-> NoLayer]    \* .activate()
        ELSE [s |-> Activate(s1, painting), threw |-> FALSE,
              layer |-> s1.nLayers])

getGuideLayer(s) ==
    Let(_getLayer(s, "isGuideLayer"), LAMBDA layer :
        IF layer # NoLayer
        THEN [s |-> s, threw |-> FALSE, layer |-> layer]
        ELSE Let(_makeGuideLayer(s), LAMBDA s1 : ActivatePainting(s1)))

NoSnapshot == [dragCrosshairLayer |-> NoLayer, guideLayer |-> NoLayer,
               backgroundGuideLayer |-> NoLayer, rasterLayer |-> NoLayer]

\* HideLookedUp with `if (includeRaster)` never taken: the raster layer is
\* neither removed nor returned
HideLookedUpKeepsRaster(backgroundGuideLayer, dragCrosshairLayer, g, includeRaster) ==
    IF g.threw \/ dragCrosshairLayer = NoLayer
    THEN [s |-> g.s, threw |-> TRUE, snap |-> NoSnapshot]
    ELSE
    Let(Remove(g.s, dragCrosshairLayer), LAMBDA s1 :
    Let(Remove(s1, g.layer), LAMBDA s2 :
        IF backgroundGuideLayer = NoLayer
        THEN [s |-> s2, threw |-> TRUE, snap |-> NoSnapshot]
        ELSE [s |-> Remove(s2, backgroundGuideLayer), threw |-> FALSE,
              snap |-> [dragCrosshairLayer |-> dragCrosshairLayer,
                        guideLayer |-> g.layer,
                        backgroundGuideLayer |-> backgroundGuideLayer,
                        rasterLayer |-> NoLayer]]))

\* HideLookedUp without `backgroundGuideLayer.remove()`: the layer is
\* returned in the snapshot but stays in the stack
HideLookedUpKeepsBackground(backgroundGuideLayer, dragCrosshairLayer, g, includeRaster) ==
    IF g.threw \/ dragCrosshairLayer = NoLayer
    THEN [s |-> g.s, threw |-> TRUE, snap |-> NoSnapshot]
    ELSE
    Let(Remove(g.s, dragCrosshairLayer), LAMBDA s1 :
    Let(Remove(s1, g.layer), LAMBDA s3 :
    Let(IF includeRaster THEN _getLayer(s3, "isRasterLayer") ELSE NoLayer,
        LAMBDA rasterLayer :
        IF backgroundGuideLayer = NoLayer \/ (includeRaster /\ rasterLayer = NoLayer)
        THEN [s |-> s3, threw |-> TRUE, snap |-> NoSnapshot]
        ELSE [s |-> Remove(s3, rasterLayer), threw |-> FALSE,
              snap |-> [dragCrosshairLayer |-> dragCrosshairLayer,
                        guideLayer |-> g.layer,
                        backgroundGuideLayer |-> backgroundGuideLayer,
                        rasterLayer |-> rasterLayer]])))

\* hideGuideLayers once the three lookups are made (g: getGuideLayer's outcome)
HideLookedUp(backgroundGuideLayer, dragCrosshairLayer, g, includeRaster) ==
    IF g.threw \/ dragCrosshairLayer = NoLayer     \* dragCrosshairLayer.remove()
    THEN [s |-> g.s, threw |-> TRUE, snap |-> NoSnapshot]
    ELSE
    Let(Remove(g.s, dragCrosshairLayer), LAMBDA s1 :
    Let(Remove(s1, g.layer), LAMBDA s2 :
        IF backgroundGuideLayer = NoLayer          \* backgroundGuideLayer.remove()
        THEN [s |-> s2, threw |-> TRUE, snap |-> NoSnapshot]
        ELSE
        Let(Remove(s2, backgroundGuideLayer), LAMBDA s3 :
        Let(IF includeRaster THEN _getLayer(s3, "isRasterLayer") ELSE NoLayer,
            LAMBDA rasterLayer :
            IF includeRaster /\ rasterLayer = NoLayer     \* rasterLayer.remove()
            THEN [s |-> s3, threw |-> TRUE, snap |-> NoSnapshot]
            ELSE [s |-> Remove(s3, rasterLayer), threw |-> FALSE,
                  snap |-> [dragCrosshairLayer |-> dragCrosshairLayer,
                            guideLayer |-> g.layer,
                            backgroundGuideLayer |-> backgroundGuideLayer,
                            rasterLayer |-> rasterLayer]]))))

hideGuideLayers(s, includeRaster) ==
    Let(getGuideLayer(s), LAMBDA g :
        HideLookedUp(getBackgroundGuideLayer(s), getDragCrosshairLayer(s), g,
                     includeRaster))

\* paper.project.activeLayer: the getter makes a layer when there is none
GetActiveLayer(s) == IF s.activeLayer = NoLayer THEN NewLayer(s) ELSE s

\* if (paper.project.activeLayer !== _getPaintingLayer()) log.error(...)
CheckActiveLayer(s4) ==
    Let(GetActiveLayer(s4), LAMBDA s5 :
        [s |-> s5, threw |-> FALSE,
         logged |-> s5.activeLayer # _getPaintingLayer(s5)])

\* showGuideLayers with the first two ifs exchanged: the background-guide
\* layer is re-added before the raster layer
showGuideLayersBackgroundFirst(s, guideLayers) ==
    Let(IF NotIndex(s, guideLayers.backgroundGuideLayer)
        THEN AddAtBack(s, guideLayers.backgroundGuideLayer) ELSE s, LAMBDA s1 :
    Let(IF guideLayers.rasterLayer # NoLayer /\ NotIndex(s1, guideLayers.rasterLayer)
        THEN AddAtBack(s1, guideLayers.rasterLayer) ELSE s1, LAMBDA s2 :
    Let(IF NotIndex(s2, guideLayers.dragCrosshairLayer)
        THEN AddAtFront(s2, guideLayers.dragCrosshairLayer) ELSE s2, LAMBDA s3 :
    Let(IF NotIndex(s3, guideLayers.guideLayer)
        THEN AddAtFront(s3, guideLayers.guideLayer) ELSE s3, LAMBDA s4 :
        CheckActiveLayer(s4)))))

showGuideLayers(s, guideLayers) ==
    Let(IF guideLayers.rasterLayer # NoLayer /\ NotIndex(s, guideLayers.rasterLayer)
        THEN AddAtBack(s, guideLayers.rasterLayer) ELSE s, LAMBDA s1 :
    Let(IF NotIndex(s1, guideLayers.backgroundGuideLayer)
        THEN AddAtBack(s1, guideLayers.backgroundGuideLayer) ELSE s1, LAMBDA s2 :
    Let(IF NotIndex(s2, guideLayers.dragCrosshairLayer)
        THEN AddAtFront(s2, guideLayers.dragCrosshairLayer) ELSE s2, LAMBDA s3 :
    Let(IF NotIndex(s3, guideLayers.guideLayer)
        THEN AddAtFront(s3, guideLayers.guideLayer) ELSE s3, LAMBDA s4 :
        CheckActiveLayer(s4)))))

\* The snapshot layers showGuideLayers passes to paper.project.addLayer: each
\* `if (!layer.index)` is decided in the state the earlier ifs have left.
ShowReinserts(s, guideLayers) ==
    Let(IF guideLayers.rasterLayer # NoLayer /\ NotIndex(s, guideLayers.rasterLayer)
        THEN {guideLayers.rasterLayer} ELSE {}, LAMBDA a1 :
    Let(IF a1 # {} THEN AddAtBack(s, guideLayers.rasterLayer) ELSE s, LAMBDA s1 :
    Let(IF NotIndex(s1, guideLayers.backgroundGuideLayer)
        THEN {guideLayers.backgroundGuideLayer} ELSE {}, LAMBDA a2 :
    Let(IF a2 # {} THEN AddAtBack(s1, guideLayers.backgroundGuideLayer) ELSE s1,
        LAMBDA s2 :
    Let(IF NotIndex(s2, guideLayers.dragCrosshairLayer)
        THEN {guideLayers.dragCrosshairLayer} ELSE {}, LAMBDA a3 :
    Let(IF a3 # {} THEN AddAtFront(s2, guideLayers.dragCrosshairLayer) ELSE s2,
        LAMBDA s3 :
        a1 \cup a2 \cup a3 \cup
            (IF NotIndex(s3, guideLayers.guideLayer)
             THEN {guideLayers.guideLayer} ELSE {})))))))

_makePaintingLayer(s) ==
    Let(NewLayer(s), LAMBDA s1 :
        [s1 EXCEPT !.data[s1.nLayers] = "isPaintingLayer"])

\* _makeRasterLayer without its clearRaster()
_makeRasterLayerWithoutRaster(s) ==
    Let(NewLayer(s), LAMBDA s1 :
        [s1 EXCEPT !.data[s1.nLayers] = "isRasterLayer"])

\* clearRaster() finds the layer just tagged, so it cannot throw here
_makeRasterLayer(s) ==
    Let(NewLayer(s), LAMBDA s1 :
        clearRaster([s1 EXCEPT !.data[s1.nLayers] = "isRasterLayer"]).s)

\* The group of _makeBackgroundPaper: its rectangle and path are made in the
\* active layer and moved into the group, which stays in the active layer
\* (the points of the path are the subject of SpecPaper).
_makeBackgroundPaper(s) == NewItem(s, "Checkerboard")

\* The group of _makeCrosshair: marked by setGuideItem, then given its parent
\* (its geometry is the subject of SpecCrosshair).
_makeCrosshair(s, parent) ==
    Let(NewItem(s, "Crosshair"), LAMBDA s1 :
    Let(SetGuideLocked(s1, s1.nItems), LAMBDA s2 :
        SetParent(s2, s2.nItems, parent)))

_makeDragCrosshairLayer(s) ==
    Let(NewLayer(s), LAMBDA s1 :
    Let(_makeCrosshair(s1, s1.nLayers), LAMBDA s2 :
        [s2 EXCEPT !.data[s1.nLayers] = "isDragCrosshairLayer",
                   !.layerVisible[s1.nLayers] = FALSE]))

_makeBackgroundGuideLayer(s) ==
    Let(NewLayer(s), LAMBDA s1 :
    Let([s1 EXCEPT !.layerLocked[s1.nLayers] = TRUE], LAMBDA s2 :
    Let(_makeBackgroundPaper(s2), LAMBDA s3 :
    Let(SetGuideLocked(s3, s3.nItems), LAMBDA s4 :
    Let(_makeCrosshair(s4, s1.nLayers), LAMBDA s5 :
        [s5 EXCEPT !.data[s1.nLayers] = "isBackgroundGuideLayer"])))))

\* ArrangeLayers without `guideLayer.bringToFront()`
ArrangeLayersGuideNotFront(s5, backgroundGuideLayer, paintLayer, dragCrosshairLayer, guideLayer) ==
    Let(SendToBack(s5, backgroundGuideLayer), LAMBDA s6 :
    Let(BringToFront(s6, dragCrosshairLayer), LAMBDA s7 :
        Activate(s7, paintLayer)))

\* sendToBack / bringToFront / bringToFront / activate, on the five layers
ArrangeLayers(s5, backgroundGuideLayer, paintLayer, dragCrosshairLayer, guideLayer) ==
    Let(SendToBack(s5, backgroundGuideLayer), LAMBDA s6 :
    Let(BringToFront(s6, dragCrosshairLayer), LAMBDA s7 :
    Let(BringToFront(s7, guideLayer), LAMBDA s8 :
        Activate(s8, paintLayer))))

setupLayers(s) ==
    Let(_makeBackgroundGuideLayer(s), LAMBDA s1 :
    Let(_makeRasterLayer(s1), LAMBDA s2 :
    Let(_makePaintingLayer(s2), LAMBDA s3 :
    Let(_makeDragCrosshairLayer(s3), LAMBDA s4 :
    Let(_makeGuideLayer(s4), LAMBDA s5 :
        ArrangeLayers(s5, s1.nLayers, s3.nLayers, s4.nLayers, s5.nLayers))))))

(***************************************************************************)
(* Specification Spec: setupLayers() on the empty project (the one-time    *)
(* session initialization), then the exported operations of layer.js in    *)
(* any order, showGuideLayers with any snapshot returned so far.           *)
(***************************************************************************)
Call(op, includeRaster, snap, layer, item, threw, logged) ==
    [op |-> op, includeRaster |-> includeRaster, snap |-> snap,
     layer |-> layer, item |-> item, threw |-> threw, logged |-> logged]

NoCall == Call("none", FALSE, NoSnapshot, NoLayer, NoItem, FALSE, FALSE)

NoItems == [i \in ItemIds |-> [kind |-> "none", guide |-> FALSE, locked |-> FALSE]]

\* the project as paper.setup() leaves it: no layer yet
Init ==
    /\ layers = <<>>
    /\ activeLayer = NoLayer
    /\ data = [l \in LayerIds |-> "none"]
    /\ children = [l \in LayerIds |-> <<>>]
    /\ layerLocked = [l \in LayerIds |-> FALSE]
    /\ layerVisible = [l \in LayerIds |-> TRUE]
    /\ items = NoItems
    /\ nLayers = 0
    /\ nItems = 0
    /\ setupDone = FALSE
    /\ snapshots = {}
    /\ lastCall = NoCall
    /\ tParent = <<>> /\ tKind = <<>> /\ tLocked = <<>> /\ tGuide = <<>>
    /\ callStack = <<>> /\ gsteps = 0
    /\ zoom = <<1, 1>> /\ crosshair = <<>> /\ cpc = "idle"
    /\ width = 0 /\ height = 0 /\ x = 0 /\ y = 0
    /\ pathPoints = <<>> /\ firstLoopLen = 0 /\ ppc = "idle"

\* the state the call leaves
Leave(s) ==
    /\ layers' = s.layers
    /\ activeLayer' = s.activeLayer
    /\ data' = s.data
    /\ children' = s.children
    /\ layerLocked' = s.layerLocked
    /\ layerVisible' = s.layerVisible
    /\ items' = s.items
    /\ nLayers' = s.nLayers
    /\ nItems' = s.nItems
    /\ UNCHANGED <<guideVars, crossVars, paperVars>>

\* getGuideLayer() will construct a layer
MakesGuideLayer == _getLayer(Cur, "isGuideLayer") = NoLayer

\* clearRaster() will construct a raster
MakesRaster == _getLayer(Cur, "isRasterLayer") # NoLayer

\* getRaster() will call clearRaster()
ResetsRaster ==
    /\ MakesRaster
    /\ Len(children[_getLayer(Cur, "isRasterLayer")]) = 0

SetupLayers ==
    /\ ~setupDone
    /\ nLayers + 5 <= MaxLayers
    /\ nItems + 4 <= MaxItems
    /\ \E s \in {setupLayers(Cur)} : Leave(s)
    /\ setupDone' = TRUE
    /\ lastCall' = Call("setupLayers", FALSE, NoSnapshot, NoLayer, NoItem,
                        FALSE, FALSE)
    /\ UNCHANGED snapshots

HideGuideLayers ==
    /\ setupDone
    /\ \E includeRaster \in BOOLEAN :
        /\ MakesGuideLayer => nLayers < MaxLayers
        /\ \E r \in {hideGuideLayers(Cur, includeRaster)} :
              /\ Leave(r.s)
              /\ snapshots' = IF r.threw THEN snapshots
                              ELSE snapshots \cup {r.snap}
              /\ lastCall' = Call("hideGuideLayers", includeRaster, r.snap,
                                  NoLayer, NoItem, r.threw, FALSE)
              /\ UNCHANGED setupDone

ShowGuideLayers ==
    \E guideLayers \in snapshots :
        \E r \in {showGuideLayers(Cur, guideLayers)} :
           /\ Leave(r.s)
           /\ lastCall' = Call("showGuideLayers", FALSE, guideLayers, NoLayer,
                               NoItem, r.threw, r.logged)
           /\ UNCHANGED <<setupDone, snapshots>>

GetGuideLayer ==
    /\ setupDone
    /\ MakesGuideLayer => nLayers < MaxLayers
    /\ \E r \in {getGuideLayer(Cur)} :
          /\ Leave(r.s)
          /\ lastCall' = Call("getGuideLayer", FALSE, NoSnapshot, r.layer,
                              NoItem, r.threw, FALSE)
          /\ UNCHANGED <<setupDone, snapshots>>

\* a lookup: the drag-crosshair layer or undefined is returned, nothing changes
GetDragCrosshairLayer ==
    /\ setupDone
    /\ getDragCrosshairLayer(Cur) \in LayerIds \cup {NoLayer}
    /\ UNCHANGED vars

\* a lookup: the background-guide layer or undefined is returned, nothing changes
GetBackgroundGuideLayer ==
    /\ setupDone
    /\ getBackgroundGuideLayer(Cur) \in LayerIds \cup {NoLayer}
    /\ UNCHANGED vars

GetRaster ==
    /\ setupDone
    /\ ResetsRaster => nItems < MaxItems
    /\ \E r \in {getRaster(Cur)} :
          /\ Leave(r.s)
          /\ lastCall' = Call("getRaster", FALSE, NoSnapshot, NoLayer, r.item,
                              r.threw, FALSE)
          /\ UNCHANGED <<setupDone, snapshots>>

ClearRaster ==
    /\ setupDone
    /\ MakesRaster => nItems < MaxItems
    /\ \E r \in {clearRaster(Cur)} :
          /\ Leave(r.s)
          /\ lastCall' = Call("clearRaster", FALSE, NoSnapshot, NoLayer, NoItem,
                              r.threw, FALSE)
          /\ UNCHANGED <<setupDone, snapshots>>

\* A caller detaches the raster it was handed (getRaster().remove()): the
\* raster layer is left without children, the case getRaster() resets lazily.
RemoveRaster ==
    /\ MakesRaster
    /\ Len(children[_getLayer(Cur, "isRasterLayer")]) > 0
    /\ Leave([Cur EXCEPT !.children[_getLayer(Cur, "isRasterLayer")] = <<>>])
    /\ lastCall' = Call("removeRaster", FALSE, NoSnapshot, NoLayer, NoItem,
                        FALSE, FALSE)
    /\ UNCHANGED <<setupDone, snapshots>>

Next ==
    \/ SetupLayers
    \/ HideGuideLayers
    \/ ShowGuideLayers
    \/ GetGuideLayer
    \/ GetDragCrosshairLayer
    \/ GetBackgroundGuideLayer
    \/ GetRaster
    \/ ClearRaster
    \/ RemoveRaster

Spec == Init /\ [][Next]_vars

(***************************************************************************)
(* Specification SpecCaller: as Spec, and between the calls the editor may *)
(* activate any layer of the project (paper.project.layers[i].activate()), *)
(* the situation showGuideLayers' active-layer check is written for.       *)
(***************************************************************************)
CallerActivates ==
    /\ setupDone
    /\ \E i \in 1..Len(layers) : \E l \in {layers[i]} :
          /\ l # activeLayer
          /\ Leave(Activate(Cur, l))
          /\ lastCall' = Call("activate", FALSE, NoSnapshot, l, NoItem,
                              FALSE, FALSE)
    /\ UNCHANGED <<setupDone, snapshots>>

NextCaller ==
    \/ SetupLayers
    \/ HideGuideLayers
    \/ ShowGuideLayers
    \/ GetGuideLayer
    \/ GetDragCrosshairLayer
    \/ GetBackgroundGuideLayer
    \/ GetRaster
    \/ ClearRaster
    \/ RemoveRaster
    \/ CallerActivates

SpecCaller == Init /\ [][NextCaller]_vars

(***************************************************************************)
(* Properties of the layer stack (specification Spec).                     *)
(***************************************************************************)
\* the role tags of the stack, back to front
RoleOrder(s) == [i \in 1..Len(s.layers) |-> s.data[s.layers[i]]]

SetUpOrder == <<"isBackgroundGuideLayer", "isRasterLayer", "isPaintingLayer",
                "isDragCrosshairLayer", "isGuideLayer">>

\* the number of layers in the stack that carry the tag
Carriers(s, role) ==
    Cardinality({i \in 1..Len(s.layers) : s.data[s.layers[i]] = role})

PaintingActive(s) ==
    /\ s.activeLayer # NoLayer
    /\ s.activeLayer = _getPaintingLayer(s)

\* the stack as setupLayers() leaves it
StackIsSetUp(s) == RoleOrder(s) = SetUpOrder /\ PaintingActive(s)

\* C1: right after setupLayers() on an empty project the stack holds exactly
\* five layers, one per role tag, in the order background-guide, raster,
\* painting, drag-crosshair, guide, and the painting layer is active.
C1_SetupStack ==
    (lastCall.op = "setupLayers" /\ setupDone) =>
        /\ Len(layers) = 5
        /\ \A role \in Roles : Carriers(Cur, role) = 1
        /\ RoleOrder(Cur) = SetUpOrder
        /\ PaintingActive(Cur)

C1_Witness == lastCall.op = "setupLayers" /\ setupDone /\ Len(layers) = 5

\* showGuideLayers(hideGuideLayers(includeRaster)) applied to s restores s
RoundTripRestores(s, includeRaster) ==
    Let(hideGuideLayers(s, includeRaster), LAMBDA h :
        /\ ~h.threw
        /\ Let(showGuideLayers(h.s, h.snap), LAMBDA r :
               /\ ~r.threw
               /\ r.s.layers = s.layers
               /\ Len(r.s.layers) = Len(s.layers)
               /\ r.s.activeLayer = s.activeLayer
               /\ RoleOrder(r.s) = SetUpOrder
               /\ PaintingActive(r.s)))

\* C2: from every reachable state whose stack is the set-up stack (so also
\* after any number of round trips), hiding with either value of
\* includeRaster and showing the returned snapshot gives back the same layer
\* objects in the same order, the same count, and the painting layer active.
C2_RoundTrip ==
    StackIsSetUp(Cur) => \A includeRaster \in BOOLEAN :
                             RoundTripRestores(Cur, includeRaster)

\* a show has just brought the stack back, after hides of both kinds
C2_Witness ==
    /\ lastCall.op = "showGuideLayers"
    /\ lastCall.snap.rasterLayer # NoLayer
    /\ StackIsSetUp(Cur)
    /\ \E a \in snapshots : a.rasterLayer = NoLayer
    /\ nLayers = 5

\* C3: hideGuideLayers(includeRaster) on a set-up stack leaves exactly raster
\* then painting (includeRaster false) or exactly painting (includeRaster
\* true), and the painting layer active.
C3_HideLeavesUserContent ==
    StackIsSetUp(Cur) => \A includeRaster \in BOOLEAN :
        Let(hideGuideLayers(Cur, includeRaster), LAMBDA h :
            /\ ~h.threw
            /\ RoleOrder(h.s) = IF includeRaster THEN <<"isPaintingLayer">>
                                ELSE <<"isRasterLayer", "isPaintingLayer">>
            /\ PaintingActive(h.s))

C3_Witness ==
    /\ lastCall.op = "hideGuideLayers"
    /\ ~lastCall.threw
    /\ lastCall.includeRaster
    /\ RoleOrder(Cur) = <<"isPaintingLayer">>
    /\ PaintingActive(Cur)

SnapshotLayers(snap) ==
    {snap.dragCrosshairLayer, snap.guideLayer, snap.backgroundGuideLayer,
     snap.rasterLayer} \ {NoLayer}

\* C4: the snapshot of a hideGuideLayers(includeRaster) that returns names
\* the drag-crosshair, guide and background-guide layers, the raster layer
\* exactly when includeRaster; none of them is still in the stack, and every
\* layer the call took out of the stack is one of them.
C4_SnapshotIsDetached ==
    \A includeRaster \in BOOLEAN :
        (MakesGuideLayer => nLayers < MaxLayers) =>
        Let(hideGuideLayers(Cur, includeRaster), LAMBDA h :
            ~h.threw =>
                /\ h.s.data[h.snap.dragCrosshairLayer] = "isDragCrosshairLayer"
                /\ h.s.data[h.snap.guideLayer] = "isGuideLayer"
                /\ h.s.data[h.snap.backgroundGuideLayer] = "isBackgroundGuideLayer"
                /\ (h.snap.rasterLayer # NoLayer) <=> includeRaster
                /\ includeRaster => h.s.data[h.snap.rasterLayer] = "isRasterLayer"
                /\ \A l \in SnapshotLayers(h.snap) : ~InStack(h.s, l)
                /\ \A l \in 1..h.s.nLayers :
                      ((InStack(Cur, l) \/ l > nLayers) /\ ~InStack(h.s, l))
                          => l \in SnapshotLayers(h.snap))

C4_Witness ==
    /\ lastCall.op = "hideGuideLayers"
    /\ ~lastCall.threw
    /\ lastCall.includeRaster
    /\ lastCall.snap.rasterLayer # NoLayer
    /\ lastCall.snap \in snapshots
    /\ ~InStack(Cur, lastCall.snap.rasterLayer)

\* C5: whenever the raster layer is in the stack, getRaster() returns, and
\* the raster layer then has exactly one child, the raster image returned
\* (a new blank one when the layer had no child).
C5_OneRasterChild ==
    (MakesRaster /\ (ResetsRaster => nItems < MaxItems)) =>
        Let(getRaster(Cur), LAMBDA r :
            /\ ~r.threw
            /\ r.item # NoItem
            /\ r.s.items[r.item].kind = "Raster"
            /\ r.s.children[_getLayer(r.s, "isRasterLayer")] = <<r.item>>
            /\ IF ResetsRaster THEN r.item = nItems + 1
               ELSE r.item = children[_getLayer(Cur, "isRasterLayer")][1])

\* getRaster() has just reset the layer lazily
C5_Witness ==
    /\ lastCall.op = "getRaster"
    /\ ~lastCall.threw
    /\ lastCall.item = nItems
    /\ nItems = 6
    /\ children[_getLayer(Cur, "isRasterLayer")] = <<lastCall.item>>

\* C6: getGuideLayer() called while no layer in the stack is tagged
\* isGuideLayer and a painting layer exists constructs one layer, tags it
\* isGuideLayer, returns it and leaves the painting layer active.
C6_LazyGuideLayer ==
    (MakesGuideLayer /\ _getPaintingLayer(Cur) # NoLayer /\ nLayers < MaxLayers) =>
        Let(getGuideLayer(Cur), LAMBDA r :
            /\ ~r.threw
            /\ r.s.nLayers = nLayers + 1
            /\ r.layer = r.s.nLayers
            /\ r.s.data[r.layer] = "isGuideLayer"
            /\ InStack(r.s, r.layer)
            /\ Carriers(r.s, "isGuideLayer") = 1
            /\ PaintingActive(r.s)
            /\ r.s.activeLayer # r.layer)

\* getGuideLayer() has just made the sixth layer
C6_Witness ==
    /\ lastCall.op = "getGuideLayer"
    /\ ~lastCall.threw
    /\ setupDone
    /\ lastCall.layer = 6
    /\ nLayers = 6
    /\ data[6] = "isGuideLayer"
    /\ PaintingActive(Cur)

\* C10: after setupLayers() on an empty project, whatever exported operations
\* follow, no role tag is carried by two layers of the stack.
C10_AtMostOnePerRole ==
    setupDone => \A role \in Roles : Carriers(Cur, role) <= 1

\* C11: after setupLayers(), whatever sequence of hideGuideLayers,
\* showGuideLayers (with snapshots returned before), getGuideLayer, getRaster
\* and clearRaster calls follows, returning or throwing, the active layer
\* between calls is the one painting layer.
C11_PaintingStaysActive ==
    setupDone =>
        /\ PaintingActive(Cur)
        /\ data[activeLayer] = "isPaintingLayer"
        /\ InStack(Cur, activeLayer)

\* a lazily made guide layer, then a throwing hide, then a show: painting
\* is active although layers were constructed and re-added
C11_Witness ==
    /\ setupDone
    /\ nLayers > 5
    /\ lastCall.op = "showGuideLayers"
    /\ \E a \in snapshots : a.rasterLayer # NoLayer
    /\ Len(layers) > 5
    /\ PaintingActive(Cur)

\* the layers of the stack s that are also in the stack s0, in s's order
Kept(s, s0) == SelectSeq(s.layers, LAMBDA l : InStack(s0, l))

\* showGuideLayers passes none of the snapshot layers that are in the stack
\* to addLayer
ShowSkipsAttached(s, guideLayers) ==
    \A l \in SnapshotLayers(guideLayers) :
        InStack(s, l) => l \notin ShowReinserts(s, guideLayers)

\* the layers that were in the stack are, after showGuideLayers, in the
\* order they were in
ShowKeepsOrder(s, guideLayers) ==
    Kept(showGuideLayers(s, guideLayers).s, s) = s.layers

\* a second showGuideLayers with the same snapshot changes neither the
\* stack nor the active layer
ShowTwiceIsShowOnce(s, guideLayers) ==
    Let(showGuideLayers(s, guideLayers), LAMBDA r1 :
    Let(showGuideLayers(r1.s, guideLayers), LAMBDA r2 :
        /\ r2.s.layers = r1.s.layers
        /\ r2.s.activeLayer = r1.s.activeLayer))

\* C12: showGuideLayers re-adds and repositions only the snapshot layers
\* that are not in the stack; one that is in the stack, wherever, is not
\* removed, re-added or moved; so a second call with the same snapshot
\* leaves the stack order and the active layer as the first left them.
C12_OnlyDetachedReinserted ==
    \A guideLayers \in snapshots :
        /\ ShowSkipsAttached(Cur, guideLayers)
        /\ ShowKeepsOrder(Cur, guideLayers)
        /\ ShowTwiceIsShowOnce(Cur, guideLayers)

\* showGuideLayers leaves the active layer the one it found
ShowKeepsActive(s, guideLayers) ==
    showGuideLayers(s, guideLayers).s.activeLayer = s.activeLayer

\* showGuideLayers logs exactly when the layer active at its end is not the
\* painting layer, and does not activate the painting layer then
ShowLogsMismatch(s, guideLayers) ==
    Let(showGuideLayers(s, guideLayers), LAMBDA r :
        /\ ~r.threw
        /\ r.logged <=> ~PaintingActive(r.s))

\* C13 (specification SpecCaller): showGuideLayers never changes which layer
\* is active, and logs an error exactly when, after the reinsertion, that
\* layer is not the painting layer.
C13_ShowKeepsActiveLayer ==
    \A guideLayers \in snapshots :
        /\ ShowKeepsActive(Cur, guideLayers)
        /\ ShowLogsMismatch(Cur, guideLayers)

\* showGuideLayers(guideLayers) re-adds both the raster layer and the
\* background-guide layer of the snapshot
ShowReinsertsBoth(s, guideLayers) ==
    /\ guideLayers.rasterLayer # NoLayer
    /\ guideLayers.rasterLayer \in ShowReinserts(s, guideLayers)
    /\ guideLayers.backgroundGuideLayer \in ShowReinserts(s, guideLayers)

Topmost(s, l) == Index(s, l) = Len(s.layers) - 1

\* C14 as stated: when showGuideLayers re-adds both the raster and the
\* background-guide layer, the background-guide layer ends up directly above
\* the raster layer and below the painting layer, and the guide layer
\* topmost.
C14_BackgroundAboveRaster ==
    \A guideLayers \in snapshots :
        ShowReinsertsBoth(Cur, guideLayers) =>
            Let(showGuideLayers(Cur, guideLayers).s, LAMBDA s :
                /\ Index(s, guideLayers.backgroundGuideLayer)
                       = Index(s, guideLayers.rasterLayer) + 1
                /\ Index(s, guideLayers.backgroundGuideLayer)
                       < Index(s, _getPaintingLayer(s))
                /\ Topmost(s, guideLayers.guideLayer))

\* C14, amended: when showGuideLayers re-adds both the raster and the
\* background-guide layer, the background-guide layer ends up at the back,
\* directly below the raster layer, which is directly below the painting
\* layer; the drag-crosshair and guide layers end up above the painting
\* layer, and the guide layer, when it is re-added too, topmost.
C14_BackgroundBelowRaster ==
    \A guideLayers \in snapshots :
        ShowReinsertsBoth(Cur, guideLayers) =>
            Let(showGuideLayers(Cur, guideLayers).s, LAMBDA s :
                /\ Index(s, guideLayers.backgroundGuideLayer) = 0
                /\ Index(s, guideLayers.rasterLayer) = 1
                /\ Index(s, _getPaintingLayer(s)) = 2
                /\ Index(s, guideLayers.dragCrosshairLayer) > 2
                /\ Index(s, guideLayers.guideLayer) > 2
                /\ guideLayers.guideLayer \in ShowReinserts(Cur, guideLayers)
                       => Topmost(s, guideLayers.guideLayer))

\* a show has just re-added all four layers of a hideGuideLayers(true)
\* snapshot
C14_Witness ==
    /\ lastCall.op = "showGuideLayers"
    /\ lastCall.snap.rasterLayer # NoLayer
    /\ RoleOrder(Cur) = SetUpOrder
    /\ Index(Cur, lastCall.snap.backgroundGuideLayer) = 0
    /\ Index(Cur, lastCall.snap.rasterLayer) = 1
    /\ Topmost(Cur, lastCall.snap.guideLayer)
    /\ lastCall.snap.guideLayer = 6

\* the call with outcome r left the stack and the active layer as they are
\* in s, and constructed no layer
LeavesLayers(r, s) ==
    /\ r.s.layers = s.layers
    /\ r.s.activeLayer = s.activeLayer
    /\ r.s.nLayers = s.nLayers

\* C15: a hideGuideLayers or getGuideLayer call that fails because a layer
\* it needs is missing (on the project before setupLayers(), or a second
\* hideGuideLayers after an unpaired one) leaves the stack and the active
\* layer as they were and has constructed no layer.
C15_FailedCallChangesNothing ==
    nLayers < MaxLayers =>
        /\ \A includeRaster \in BOOLEAN :
              Let(hideGuideLayers(Cur, includeRaster), LAMBDA h :
                  h.threw => LeavesLayers(h, Cur))
        /\ Let(getGuideLayer(Cur), LAMBDA g :
                  g.threw => LeavesLayers(g, Cur))

\* the kinds of the children of the first layer of s carrying the tag
ChildKinds(s, role) ==
    [i \in 1..Len(s.children[_getLayer(s, role)]) |->
        s.items[s.children[_getLayer(s, role)][i]].kind]

\* C16: right after setupLayers() every item made during the setup is in
\* the layer of its role: the painting and guide layers have no children,
\* the raster layer has the blank raster only, the drag-crosshair layer one
\* crosshair and is not visible, the background-guide layer is locked and
\* has the checkerboard group and one crosshair only.
C16_ItemsInTheirLayers ==
    (lastCall.op = "setupLayers" /\ setupDone) =>
        /\ ChildKinds(Cur, "isPaintingLayer") = <<>>
        /\ ChildKinds(Cur, "isGuideLayer") = <<>>
        /\ ChildKinds(Cur, "isRasterLayer") = <<"Raster">>
        /\ ChildKinds(Cur, "isDragCrosshairLayer") = <<"Crosshair">>
        /\ ~layerVisible[_getLayer(Cur, "isDragCrosshairLayer")]
        /\ layerLocked[_getLayer(Cur, "isBackgroundGuideLayer")]
        /\ ChildKinds(Cur, "isBackgroundGuideLayer") = <<"Checkerboard", "Crosshair">>
        /\ \A it \in 1..nItems :
              Cardinality({l \in LayerIds :
                  \E i \in 1..Len(children[l]) : children[l][i] = it}) = 1

C16_Witness ==
    /\ lastCall.op = "setupLayers"
    /\ nItems = 4
    /\ nLayers = 5
    /\ Len(children[1]) = 2
    /\ activeLayer = 3
    /\ children[activeLayer] = <<>>

\* From s to s1 only the children of the raster layer have changed: they
\* are now one newly constructed raster, locked and marked guide.
OnlyRasterReplaced(s, s1) ==
    Let(_getLayer(s, "isRasterLayer"), LAMBDA layer :
        /\ s1.layers = s.layers
        /\ s1.activeLayer = s.activeLayer
        /\ s1.data = s.data
        /\ s1.layerLocked = s.layerLocked
        /\ s1.layerVisible = s.layerVisible
        /\ s1.nLayers = s.nLayers
        /\ \A l \in LayerIds : l # layer => s1.children[l] = s.children[l]
        /\ s1.nItems = s.nItems + 1
        /\ s1.children[layer] = <<s1.nItems>>
        /\ s1.items[s1.nItems] = [kind |-> "Raster", guide |-> TRUE, locked |-> TRUE]
        /\ \A it \in 1..s.nItems : s1.items[it] = s.items[it])

\* C17: clearRaster(), and getRaster() when the raster layer has no child,
\* replace the children of the raster layer by one new raster, locked and
\* marked guide, and change nothing else: not the stack, not the active
\* layer, not the children of any other layer.
C17_OnlyRasterChildrenChange ==
    /\ (MakesRaster /\ nItems < MaxItems) =>
          Let(clearRaster(Cur), LAMBDA c :
              ~c.threw /\ OnlyRasterReplaced(Cur, c.s))
    /\ (ResetsRaster /\ nItems < MaxItems) =>
          Let(getRaster(Cur), LAMBDA r :
              ~r.threw /\ r.item = nItems + 1 /\ OnlyRasterReplaced(Cur, r.s))

\* clearRaster() has just replaced a raster that an earlier clearRaster()
\* or getRaster() made
C17_Witness ==
    /\ lastCall.op = "clearRaster"
    /\ ~lastCall.threw
    /\ nItems = 6
    /\ MakesRaster
    /\ children[_getLayer(Cur, "isRasterLayer")] = <<6>>
    /\ items[6].locked /\ items[6].guide
    /\ PaintingActive(Cur)
    /\ children[activeLayer] = <<>>

(***************************************************************************)
(* Specification SpecPaper: _makeBackgroundPaper(width, height, color),    *)
(* one loop iteration per step, for every width and height up to MaxDim.   *)
(***************************************************************************)
MaxDim == 8

\* the second loop run once more: while (y >= 0)
SecondLoopCondInclusive == y >= 0

FirstLoopCond == x < width

SecondLoopCond == y > 0

PaperInit ==
    /\ layers = <<>>
    /\ activeLayer = NoLayer
    /\ data = [l \in LayerIds |-> "none"]
    /\ children = [l \in LayerIds |-> <<>>]
    /\ layerLocked = [l \in LayerIds |-> FALSE]
    /\ layerVisible = [l \in LayerIds |-> TRUE]
    /\ items = NoItems
    /\ nLayers = 0
    /\ nItems = 0
    /\ setupDone = FALSE
    /\ snapshots = {}
    /\ lastCall = NoCall
    /\ tParent = <<>> /\ tKind = <<>> /\ tLocked = <<>> /\ tGuide = <<>>
    /\ callStack = <<>> /\ gsteps = 0
    /\ zoom = <<1, 1>> /\ crosshair = <<>> /\ cpc = "idle"
    /\ width \in 1..MaxDim
    /\ height \in 1..MaxDim
    /\ x = 0
    /\ y = 0
    /\ pathPoints = <<>>
    /\ firstLoopLen = 0
    /\ ppc = "loop1"

\* while (x < width) { push (x, y); x++; push (x, y); y = y === 0 ? height : 0 }
FirstLoop ==
    /\ ppc = "loop1"
    /\ FirstLoopCond
    /\ pathPoints' = pathPoints \o << <<x, y>>, <<x + 1, y>> >>
    /\ x' = x + 1
    /\ y' = IF y = 0 THEN height ELSE 0
    /\ UNCHANGED <<width, height, firstLoopLen, ppc>>
    /\ UNCHANGED <<layerVars, guideVars, crossVars>>

\* y = height - 1; x = width
FirstLoopExit ==
    /\ ppc = "loop1"
    /\ ~FirstLoopCond
    /\ y' = height - 1
    /\ x' = width
    /\ firstLoopLen' = Len(pathPoints)
    /\ ppc' = "loop2"
    /\ UNCHANGED <<width, height, pathPoints>>
    /\ UNCHANGED <<layerVars, guideVars, crossVars>>

\* while (y > 0) { push (x, y); x = x === 0 ? width : 0; push (x, y); y-- }
SecondLoop ==
    /\ ppc = "loop2"
    /\ SecondLoopCond
    /\ x' = IF x = 0 THEN width ELSE 0
    /\ pathPoints' = pathPoints \o << <<x, y>>, <<x', y>> >>
    /\ y' = y - 1
    /\ UNCHANGED <<width, height, firstLoopLen, ppc>>
    /\ UNCHANGED <<layerVars, guideVars, crossVars>>

\* the loops are left: the rectangle, the path and the group are built
SecondLoopExit ==
    /\ ppc = "loop2"
    /\ ~SecondLoopCond
    /\ ppc' = "done"
    /\ UNCHANGED <<width, height, x, y, pathPoints, firstLoopLen>>
    /\ UNCHANGED <<layerVars, guideVars, crossVars>>

PaperNext ==
    \/ FirstLoop
    \/ FirstLoopExit
    \/ SecondLoop
    \/ SecondLoopExit

SpecPaper == PaperInit /\ [][PaperNext]_vars

\* C9 as stated: at 8 x 8 the first loop gives 16 points and the second 16,
\* 32 in all.
C9_SixteenPlusSixteen ==
    (ppc = "done" /\ width = 8 /\ height = 8) =>
        /\ firstLoopLen = 16
        /\ Len(pathPoints) - firstLoopLen = 16
        /\ Len(pathPoints) = 32

\* C9, amended: at 8 x 8 the first loop gives 16 points and the second 14,
\* 30 in all; for every width and height the first loop gives 2 * width
\* points and the second 2 * (height - 1).
C9_SixteenPlusFourteen ==
    /\ (ppc = "done" /\ width = 8 /\ height = 8) =>
          /\ firstLoopLen = 16
          /\ Len(pathPoints) - firstLoopLen = 14
          /\ Len(pathPoints) = 30
    /\ ppc = "done" =>
          /\ firstLoopLen = 2 * width
          /\ Len(pathPoints) - firstLoopLen = 2 * (height - 1)

C9_Witness ==
    /\ ppc = "done"
    /\ width = 8
    /\ height = 8
    /\ Len(pathPoints) = 30
    /\ pathPoints[16] = <<8, 8>>
    /\ pathPoints[17] = <<8, 7>>
    /\ pathPoints[30] = <<0, 1>>

\* The polygon of pathPoints: edge k runs from point k to point k + 1, the
\* last one back to the first.
EdgeFrom(k) == pathPoints[k]
EdgeTo(k) == pathPoints[IF k = Len(pathPoints) THEN 1 ELSE k + 1]

AxisAligned(k) == EdgeFrom(k)[1] = EdgeTo(k)[1] \/ EdgeFrom(k)[2] = EdgeTo(k)[2]

\* Edge k crosses the ray that leaves the centre of cell (i, j) in the
\* direction of growing x.  Coordinates are doubled, so the centre is
\* (2i + 1, 2j + 1) and no vertex lies on the ray.
CrossesRay(k, i, j) ==
    LET px == 2 * EdgeFrom(k)[1]
        py == 2 * EdgeFrom(k)[2]
        qx == 2 * EdgeTo(k)[1]
        qy == 2 * EdgeTo(k)[2]
        cx == 2 * i + 1
        cy == 2 * j + 1
        dy == qy - py
        at == px * dy + (cy - py) * (qx - px)     \* dy times the crossing's x
    IN /\ (py > cy) # (qy > cy)
       /\ IF dy > 0 THEN at > cx * dy ELSE at < cx * dy

\* even-odd rule: the cell is filled when the ray crosses an odd number of
\* edges
Filled(i, j) ==
    Cardinality({k \in 1..Len(pathPoints) : CrossesRay(k, i, j)}) % 2 = 1

IsCheckerboard ==
    /\ \A k \in 1..Len(pathPoints) : AxisAligned(k)
    /\ \A i \in 0..(width - 1) : \A j \in 0..(height - 1) :
          Filled(i, j) <=> (i + j) % 2 = 0

\* C18: for every width and height of at least 1, the points of
\* _makeBackgroundPaper(width, height, color), closed into a polygon, have
\* axis-aligned edges only and, under the even-odd rule, fill cell (i, j)
\* exactly when i + j is even.
C18_CheckerboardForAllSizes ==
    ppc = "done" => IsCheckerboard

(***************************************************************************)
(* Specification SpecGuide: setGuideItem(item) on every item tree of up to *)
(* MaxNodes nodes, the recursion run on an explicit call stack.  Node 1 is *)
(* the item passed in; a node's children are the nodes naming it as their  *)
(* parent, in ascending order.                                             *)
(***************************************************************************)
MaxNodes == 4

ClassNames == {"Group", "Path", "CompoundPath"}

\* isGroupItem of ./item: the item is a paper.Group
isGroupItem(className) == className = "Group"

Nodes == 1..Len(tParent)

\* item.children
Children(item) ==
    SelectSeq([k \in Nodes |-> k], LAMBDA j : tParent[j] = item)

GuideInit ==
    /\ layers = <<>>
    /\ activeLayer = NoLayer
    /\ data = [l \in LayerIds |-> "none"]
    /\ children = [l \in LayerIds |-> <<>>]
    /\ layerLocked = [l \in LayerIds |-> FALSE]
    /\ layerVisible = [l \in LayerIds |-> TRUE]
    /\ items = NoItems
    /\ nLayers = 0
    /\ nItems = 0
    /\ setupDone = FALSE
    /\ snapshots = {}
    /\ lastCall = NoCall
    /\ zoom = <<1, 1>> /\ crosshair = <<>> /\ cpc = "idle"
    /\ width = 0 /\ height = 0 /\ x = 0 /\ y = 0
    /\ pathPoints = <<>> /\ firstLoopLen = 0 /\ ppc = "idle"
    /\ \E n \in 1..MaxNodes :
          /\ tParent \in {p \in [1..n -> 0..(n - 1)] :
                            /\ p[1] = 0
                            /\ \A i \in 2..n : p[i] \in 1..(i - 1)}
          /\ tKind \in {k \in [1..n -> ClassNames] :
                          \A i \in 2..n : k[tParent[i]] # "Path"}
          /\ tLocked = [i \in 1..n |-> FALSE]
          /\ tGuide = [i \in 1..n |-> FALSE]
    /\ callStack = <<[item |-> 1, i |-> 0, pc |-> "mark"]>>
    /\ gsteps = 0

Top == callStack[Len(callStack)]

\* the call returns: its frame is popped and the caller's loop does i++
Return(stack) ==
    IF Len(stack) = 1 THEN <<>>
    ELSE [SubSeq(stack, 1, Len(stack) - 1)
            EXCEPT ![Len(stack) - 1].i = @ + 1]

\* the loop stopping one child early: i < item.children.length - 1
setGuideItemLoopCondShort(f) == f.i < Len(Children(f.item)) - 1

\* i < item.children.length
setGuideItemLoopCond(f) == f.i < Len(Children(f.item))

\* item.locked = true; item.guide = true; if (isGroupItem(item)) ...
GuideMark ==
    /\ callStack # <<>>
    /\ Top.pc = "mark"
    /\ tLocked' = [tLocked EXCEPT ![Top.item] = TRUE]
    /\ tGuide' = [tGuide EXCEPT ![Top.item] = TRUE]
    /\ callStack' = IF isGroupItem(tKind[Top.item])
                    THEN [callStack EXCEPT ![Len(callStack)].pc = "loop"]
                    ELSE Return(callStack)
    /\ gsteps' = gsteps + 1
    /\ UNCHANGED <<tParent, tKind>>
    /\ UNCHANGED <<layerVars, crossVars, paperVars>>

\* setGuideItem(item.children[i])
GuideCall ==
    /\ callStack # <<>>
    /\ Top.pc = "loop"
    /\ setGuideItemLoopCond(Top)
    /\ callStack' = Append(callStack, [item |-> Children(Top.item)[Top.i + 1],
                                       i |-> 0, pc |-> "mark"])
    /\ gsteps' = gsteps + 1
    /\ UNCHANGED <<tParent, tKind, tLocked, tGuide>>
    /\ UNCHANGED <<layerVars, crossVars, paperVars>>

\* the loop is left
GuideReturn ==
    /\ callStack # <<>>
    /\ Top.pc = "loop"
    /\ ~setGuideItemLoopCond(Top)
    /\ callStack' = Return(callStack)
    /\ gsteps' = gsteps + 1
    /\ UNCHANGED <<tParent, tKind, tLocked, tGuide>>
    /\ UNCHANGED <<layerVars, crossVars, paperVars>>

GuideNext ==
    \/ GuideMark
    \/ GuideCall
    \/ GuideReturn

SpecGuide == GuideInit /\ [][GuideNext]_vars

\* every item with children is a paper.Group, the root included
OnlyGroupsNest ==
    /\ tKind[1] = "Group"
    /\ \A i \in Nodes : Children(i) # <<>> => tKind[i] = "Group"

\* C7: setGuideItem on a group whose N descendants nest through groups only
\* terminates (the recursion never goes deeper than the tree has nodes and
\* is over in at most three statements per node, and is never stuck before
\* the outermost call returns) with locked and guide true on all N + 1 items.
C7_AllMarked ==
    /\ Len(callStack) <= Len(tParent)
    /\ gsteps <= 3 * Len(tParent)
    /\ callStack # <<>> => ENABLED GuideNext
    /\ (tParent # <<>> /\ callStack = <<>> /\ OnlyGroupsNest) =>
          /\ \A i \in Nodes : tLocked[i] /\ tGuide[i]
          /\ Cardinality({i \in Nodes : tLocked[i] /\ tGuide[i]})
                = (Len(tParent) - 1) + 1

\* a group holding a group holding two items, all marked
C7_Witness ==
    /\ callStack = <<>>
    /\ tParent = <<0, 1, 2, 2>>
    /\ OnlyGroupsNest
    /\ tKind[4] = "Path"
    /\ \A i \in Nodes : tLocked[i] /\ tGuide[i]

(***************************************************************************)
(* Specification SpecCrosshair: _makeCrosshair(opacity, parent) at every   *)
(* view zoom num/den with num up to MaxZoomNum and den up to MaxZoomDen.   *)
(* Lengths are exact fractions <<num, den>>; opacities are in hundredths.  *)
(***************************************************************************)
MaxZoomNum == 4
MaxZoomDen == 3

CROSSHAIR_SIZE == 16
CROSSHAIR_FULL_OPACITY == 75
BackgroundCrosshairOpacity == 16

RatMul(a, b) == <<a[1] * b[1], a[2] * b[2]>>
RatDiv(a, b) == <<a[1] * b[2], a[2] * b[1]>>
RatEq(a, b) == a[1] * b[2] = b[1] * a[2]

\* the six primitives in the order they are added; left and right are the
\* x extent of the geometry, as fractions
Line(x1, x2, strokeWidth, strokeColor) ==
    [shape |-> "Line", left |-> <<x1, 1>>, right |-> <<x2, 1>>,
     strokeWidth |-> strokeWidth, strokeColor |-> strokeColor,
     locked |-> FALSE, guide |-> FALSE]

\* new paper.Shape.Circle(new paper.Point(0, 0), 5.5)
Circle(strokeWidth, strokeColor) ==
    [shape |-> "Circle", left |-> <<-11, 2>>, right |-> <<11, 2>>,
     strokeWidth |-> strokeWidth, strokeColor |-> strokeColor,
     locked |-> FALSE, guide |-> FALSE]

Primitives ==
    << Line(0, 0, 6, "white"), Line(-7, 7, 6, "white"), Circle(6, "white"),
       Line(0, 0, 2, "black"), Line(-7, 7, 2, "black"), Circle(2, "black") >>

RatLess(a, b) == a[1] * b[2] < b[1] * a[2]

\* group.bounds.width: the extent of the children's geometry (strokes are
\* not part of bounds), times the scaling of the group's matrix
BoundsWidth(c) ==
    IF c.children = <<>> THEN <<0, 1>>
    ELSE LET ks == 1..Len(c.children)
             l == CHOOSE i \in ks : \A j \in ks :
                     ~RatLess(c.children[j].left, c.children[i].left)
             r == CHOOSE i \in ks : \A j \in ks :
                     ~RatLess(c.children[i].right, c.children[j].right)
             lo == c.children[l].left
             hi == c.children[r].right
         IN RatMul(<<hi[1] * lo[2] - lo[1] * hi[2], hi[2] * lo[2]>>, c.scaling)

\* the factor without the division by the zoom
ScaleFactorNoZoom == RatDiv(<<CROSSHAIR_SIZE, 1>>, BoundsWidth(crosshair))

\* CROSSHAIR_SIZE / crosshair.bounds.width / paper.view.zoom
ScaleFactor == RatDiv(RatDiv(<<CROSSHAIR_SIZE, 1>>, BoundsWidth(crosshair)), zoom)

CrossInit ==
    /\ layers = <<>>
    /\ activeLayer = NoLayer
    /\ data = [l \in LayerIds |-> "none"]
    /\ children = [l \in LayerIds |-> <<>>]
    /\ layerLocked = [l \in LayerIds |-> FALSE]
    /\ layerVisible = [l \in LayerIds |-> TRUE]
    /\ items = NoItems
    /\ nLayers = 0
    /\ nItems = 0
    /\ setupDone = FALSE
    /\ snapshots = {}
    /\ lastCall = NoCall
    /\ tParent = <<>> /\ tKind = <<>> /\ tLocked = <<>> /\ tGuide = <<>>
    /\ callStack = <<>> /\ gsteps = 0
    /\ width = 0 /\ height = 0 /\ x = 0 /\ y = 0
    /\ pathPoints = <<>> /\ firstLoopLen = 0 /\ ppc = "idle"
    /\ zoom \in (1..MaxZoomNum) \X (1..MaxZoomDen)
    /\ \E opacity \in {CROSSHAIR_FULL_OPACITY, BackgroundCrosshairOpacity} :
          crosshair = [children |-> <<>>, locked |-> FALSE, guide |-> FALSE,
                       opacityArg |-> opacity, opacity |-> 100,
                       positioned |-> FALSE, parented |-> FALSE,
                       applyMatrix |-> TRUE, scaling |-> <<1, 1>>]
    /\ cpc = "build"

\* crosshair.addChild(...), six times
CrossAddChild ==
    /\ cpc = "build"
    /\ Len(crosshair.children) < Len(Primitives)
    /\ crosshair' = [crosshair EXCEPT !.children =
                        Append(@, Primitives[Len(crosshair.children) + 1])]
    /\ cpc' = IF Len(crosshair.children) + 1 = Len(Primitives) THEN "mark"
              ELSE "build"
    /\ UNCHANGED zoom
    /\ UNCHANGED <<layerVars, guideVars, paperVars>>

\* setGuideItem(crosshair): the group and its children
CrossSetGuideItem ==
    /\ cpc = "mark"
    /\ crosshair' = [crosshair EXCEPT
                        !.locked = TRUE, !.guide = TRUE,
                        !.children = [k \in 1..Len(crosshair.children) |->
                                        [crosshair.children[k] EXCEPT
                                            !.locked = TRUE, !.guide = TRUE]]]
    /\ cpc' = "place"
    /\ UNCHANGED zoom
    /\ UNCHANGED <<layerVars, guideVars, paperVars>>

\* position, opacity, parent, applyMatrix = false, parent.dragCrosshair
CrossPlace ==
    /\ cpc = "place"
    /\ crosshair' = [crosshair EXCEPT !.positioned = TRUE,
                                      !.opacity = crosshair.opacityArg,
                                      !.parented = TRUE,
                                      !.applyMatrix = FALSE]
    /\ cpc' = "scale"
    /\ UNCHANGED zoom
    /\ UNCHANGED <<layerVars, guideVars, paperVars>>

\* crosshair.scale(CROSSHAIR_SIZE / crosshair.bounds.width / paper.view.zoom)
CrossScale ==
    /\ cpc = "scale"
    /\ crosshair' = [crosshair EXCEPT !.scaling = RatMul(@, ScaleFactor)]
    /\ cpc' = "done"
    /\ UNCHANGED zoom
    /\ UNCHANGED <<layerVars, guideVars, paperVars>>

CrossNext ==
    \/ CrossAddChild
    \/ CrossSetGuideItem
    \/ CrossPlace
    \/ CrossScale

SpecCrosshair == CrossInit /\ [][CrossNext]_vars

\* C8: once _makeCrosshair has scaled the group, its bounding width times the
\* zoom is CROSSHAIR_SIZE: 16 at zoom 1, 8 at zoom 2.
C8_ConstantScreenSize ==
    cpc = "done" =>
        /\ RatEq(RatMul(BoundsWidth(crosshair), zoom), <<CROSSHAIR_SIZE, 1>>)
        /\ RatEq(BoundsWidth(crosshair), RatDiv(<<CROSSHAIR_SIZE, 1>>, zoom))
        /\ RatEq(zoom, <<1, 1>>) => RatEq(BoundsWidth(crosshair), <<16, 1>>)
        /\ RatEq(zoom, <<2, 1>>) => RatEq(BoundsWidth(crosshair), <<8, 1>>)

C8_Witness ==
    /\ cpc = "done"
    /\ zoom = <<2, 1>>
    /\ Len(crosshair.children) = 6
    /\ RatEq(BoundsWidth(crosshair), <<8, 1>>)

=============================================================================
